---- MODULE Spec2Model ----
(***************************************************************************)
(* Model of GenotypeDataSplitter (split_breed_plink_reimplemented.py):     *)
(* the mapping-table, marker-file and sample-file loaders, the two         *)
(* validators, the grouping step and the per-group bundle writer, driven   *)
(* by run().                                                               *)
(*                                                                         *)
(* A text line is modelled as the sequence of its tab-separated fields;    *)
(* a field is a token without whitespace, or the empty string.  A file is  *)
(* a sequence of lines.  Python dicts are insertion-ordered and are        *)
(* modelled as sequences of entries with unique keys.                      *)
(***************************************************************************)
EXTENDS Integers, Sequences, FiniteSets, TLC

\* ------------------------------------------------------------------ bounds
\* lines of the mapping table
MaxSplitLines == 2
\* lines of one marker file, lines of one sample file
MaxMapLines == 2
MaxPedLines == 2
\* lines of all marker and sample files of one batch together
MaxBatchLines == 4

\* ------------------------------------------------------ input vocabularies
Chips == {"S1", "S2"}
Breeds == {"BreedA", "BreedB"}
Markers == {"M1", "M2"}
Prefixes == {"a", "b"}
\* (sampleId, first allele) of the well-formed sample rows: S1 genotyped twice
SampleCalls == {<<"S1", "A">>, <<"S1", "G">>, <<"S2", "A">>}

\* split_by_breed warns below this group size
MinBreedSize == 100

SeqsUpTo(S, n) == UNION {[1..k -> S] : k \in 0..n}

Range(s) == {s[i] : i \in 1..Len(s)}

\* ------------------------------------------------------------ text parsing
RECURSIVE LStrip(_)
LStrip(line) ==
  IF line = <<>> THEN <<>>
  ELSE IF Head(line) = "" THEN LStrip(Tail(line)) ELSE line

RECURSIVE RStrip(_)
RStrip(line) ==
  IF line = <<>> THEN <<>>
  ELSE IF line[Len(line)] = "" THEN RStrip(SubSeq(line, 1, Len(line) - 1))
  ELSE line

\* line.strip().split('\t'): leading and trailing empty fields vanish with
\* the tabs that delimit them; the empty string splits into one empty field.
Parts(line) ==
  LET stripped == RStrip(LStrip(line))
  IN IF stripped = <<>> THEN <<"">> ELSE stripped

\* ------------------------------------------------------------------ defects
Defect(kind, stage, file, line, id) ==
  [kind |-> kind, stage |-> stage, file |-> file, line |-> line, id |-> id]

SplitTableName == "split_plink.txt"

\* ------------------------------------------------------- load_split_table
HasChip(table, chip_id) == \E i \in 1..Len(table) : table[i].chip_id = chip_id

RECURSIVE SplitRows(_, _, _)
SplitRows(lines, line_num, acc) ==
  IF line_num > Len(lines) THEN acc
  ELSE
    LET parts == Parts(lines[line_num])
    IN IF Len(parts) # 3
       THEN SplitRows(lines, line_num + 1,
              [acc EXCEPT !.error = TRUE,
                          !.defects = Append(@, Defect("MalformedRow", "load_split_table",
                                                       SplitTableName, line_num, ""))])
       ELSE IF HasChip(acc.table, parts[1])
       THEN SplitRows(lines, line_num + 1,
              [acc EXCEPT !.error = TRUE,
                          !.defects = Append(@, Defect("DuplicateKey", "load_split_table",
                                                       SplitTableName, 0, parts[1]))])
       ELSE SplitRows(lines, line_num + 1,
              [acc EXCEPT !.table = Append(@, [chip_id |-> parts[1],
                                               sample_name |-> parts[2],
                                               breed |-> parts[3]])])

load_split_table(file) ==
  LET none == [table |-> <<>>, error |-> FALSE, defects |-> <<>>]
      one(kind) == [table |-> <<>>, error |-> TRUE,
                    defects |-> <<Defect(kind, "load_split_table", SplitTableName, 0, "")>>]
  IN IF ~file.exists THEN one("MissingInput")
     ELSE IF file.lines = <<>> THEN one("EmptyInput")
     ELSE IF ~file.readable THEN one("ReadFailure")
     ELSE SplitRows(file.lines, 1, none)

\* ------------------------------------------------------- find_plink_files
FileName(prefix, ext) == <<prefix, ext>>

RECURSIVE ScanDir(_, _, _)
ScanDir(listing, i, acc) ==
  IF i > Len(listing) THEN acc
  ELSE
    LET filename == listing[i]
        prefix == filename[1]
        present(ext) == FileName(prefix, ext) \in Range(listing)
    IN IF filename[2] = "map"
       THEN IF present("ped")
            THEN ScanDir(listing, i + 1, [acc EXCEPT !.pairs = Append(@, prefix)])
            ELSE ScanDir(listing, i + 1,
                   [acc EXCEPT !.error = TRUE,
                               !.defects = Append(@, Defect("UnpairedInput", "find_plink_files",
                                                            prefix, 0, "map"))])
       ELSE IF ~present("map")
            THEN ScanDir(listing, i + 1,
                   [acc EXCEPT !.error = TRUE,
                               !.defects = Append(@, Defect("UnpairedInput", "find_plink_files",
                                                            prefix, 0, "ped"))])
            ELSE ScanDir(listing, i + 1, acc)

find_plink_files(listing) ==
  LET scan == ScanDir(listing, 1, [pairs |-> <<>>, error |-> FALSE, defects |-> <<>>])
  IN IF scan.pairs = <<>>
     THEN [pairs |-> <<>>, error |-> TRUE,
           defects |-> Append(scan.defects,
                              Defect("MissingInput", "find_plink_files", "", 0, "map"))]
     ELSE scan

\* ---------------------------------------------------------- load_map_file
RECURSIVE MapRows(_, _, _, _)
MapRows(prefix, lines, line_num, acc) ==
  IF line_num > Len(lines) THEN acc
  ELSE
    LET parts == Parts(lines[line_num])
    IN IF Len(parts) # 4
       THEN MapRows(prefix, lines, line_num + 1,
              [acc EXCEPT !.error = TRUE,
                          !.defects = Append(@, Defect("MalformedRow", "load_files",
                                                       prefix, line_num, "map"))])
       ELSE MapRows(prefix, lines, line_num + 1,
              \* (snp_id, chromosome, position, genetic_distance)
              [acc EXCEPT !.data = Append(@, <<parts[2], parts[1], parts[4], parts[3]>>)])

load_map_file(prefix, file) ==
  IF ~file.readable
  THEN [data |-> <<>>, error |-> TRUE,
        defects |-> <<Defect("ReadFailure", "load_files", prefix, 0, "map")>>]
  ELSE MapRows(prefix, file.lines, 1, [data |-> <<>>, error |-> FALSE, defects |-> <<>>])

\* ---------------------------------------------------------- load_ped_file
RECURSIVE PedRows(_, _, _, _, _)
PedRows(prefix, lines, expected_columns, line_num, acc) ==
  IF line_num > Len(lines) THEN acc
  ELSE
    LET parts == Parts(lines[line_num])
    IN IF Len(parts) # expected_columns
       THEN PedRows(prefix, lines, expected_columns, line_num + 1,
              [acc EXCEPT !.error = TRUE,
                          !.defects = Append(@, Defect("MalformedRow", "load_files",
                                                       prefix, line_num, "ped"))])
       ELSE PedRows(prefix, lines, expected_columns, line_num + 1,
              \* (sample_id, family_id, father_id, mother_id, sex, phenotype, genotypes)
              [acc EXCEPT !.data = Append(@, <<parts[2], parts[1], parts[3], parts[4],
                                               parts[5], parts[6],
                                               SubSeq(parts, 7, Len(parts))>>)])

load_ped_file(prefix, file, expected_snp_count) ==
  IF ~file.readable
  THEN [data |-> <<>>, error |-> TRUE,
        defects |-> <<Defect("ReadFailure", "load_files", prefix, 0, "ped")>>]
  ELSE PedRows(prefix, file.lines, 6 + 2 * expected_snp_count, 1,
               [data |-> <<>>, error |-> FALSE, defects |-> <<>>])

\* ----------------------------------------------- validate_map_consistency
SnpIds(data) == [i \in 1..Len(data) |-> data[i][1]]

validate_map_consistency(md) ==
  LET bad(why) == [ok |-> FALSE,
                   defects |-> <<Defect("InconsistentSchema", "validate_map_consistency",
                                        "", 0, why)>>]
  IN IF Len(md) <= 1 THEN [ok |-> TRUE, defects |-> <<>>]
     ELSE IF Cardinality({Len(md[i].data) : i \in 1..Len(md)}) > 1 THEN bad("count")
     ELSE IF \E i \in 2..Len(md) : SnpIds(md[i].data) # SnpIds(md[1].data) THEN bad("order")
     ELSE [ok |-> TRUE, defects |-> <<>>]

\* ------------------------------------------------ validate_data_integrity
AllSampleIds(pd) ==
  UNION {{pd[i].data[j][1] : j \in 1..Len(pd[i].data)} : i \in 1..Len(pd)}

\* sample_id_counts: one increment per element of the set all_sample_ids
SampleIdCounts(all_sample_ids) ==
  [sample_id \in all_sample_ids |-> Cardinality({x \in all_sample_ids : x = sample_id})]

DuplicateDefects(all_sample_ids) ==
  LET counts == SampleIdCounts(all_sample_ids)
      dups == {sample_id \in all_sample_ids : counts[sample_id] > 1}
      RECURSIVE Each(_)
      Each(S) == IF S = {} THEN <<>>
                 ELSE LET x == CHOOSE y \in S : TRUE
                      IN <<Defect("DuplicateSampleId", "validate_data_integrity", "", 0, x)>>
                         \o Each(S \ {x})
  IN Each(dups)

\* bug variant: the scan of the mapping table starts at its second entry
Mut_missing_genotypes(table, all_sample_ids) ==
  SelectSeq([i \in 1..(Len(table) - 1) |-> table[i + 1].chip_id],
            LAMBDA c : c \notin all_sample_ids)

missing_genotypes(table, all_sample_ids) ==
  SelectSeq([i \in 1..Len(table) |-> table[i].chip_id], LAMBDA c : c \notin all_sample_ids)

\* bug variant: the count comparison is left out
Mut_RowCountMismatch(table, all_sample_ids) == FALSE

RowCountMismatch(table, all_sample_ids) == Len(table) # Cardinality(all_sample_ids)

validate_data_integrity(table, pd, error) ==
  LET ids == AllSampleIds(pd)
      dupDefects == DuplicateDefects(ids)
      missing == missing_genotypes(table, ids)
      missDefects == [i \in 1..Len(missing) |->
                        Defect("UnmappedChip", "validate_data_integrity", "", 0, missing[i])]
      countDefects == IF RowCountMismatch(table, ids)
                      THEN <<Defect("RowCountMismatch", "validate_data_integrity", "", 0, "")>>
                      ELSE <<>>
      defs == dupDefects \o missDefects \o countDefects
  IN [defects |-> defs, error |-> error \/ defs # <<>>]

\* --------------------------------------------------------- split_by_breed
GroupIndex(groups, breed) ==
  IF \E k \in 1..Len(groups) : groups[k].breed = breed
  THEN CHOOSE k \in 1..Len(groups) : groups[k].breed = breed
  ELSE 0

RECURSIVE GroupRows(_, _, _)
GroupRows(table, i, groups) ==
  IF i > Len(table) THEN groups
  ELSE
    LET e == table[i]
        k == GroupIndex(groups, e.breed)
        sample == <<e.chip_id, e.sample_name>>
    IN IF k = 0
       THEN GroupRows(table, i + 1, Append(groups, [breed |-> e.breed, samples |-> <<sample>>]))
       ELSE GroupRows(table, i + 1, [groups EXCEPT ![k].samples = Append(@, sample)])

breed_groups_of(table) == GroupRows(table, 1, <<>>)

\* ---------------------------------------------------- generate_breed_files
RECURSIVE Concat(_)
Concat(ss) == IF ss = <<>> THEN <<>> ELSE Head(ss) \o Concat(Tail(ss))

AllRows(pd) == Concat([i \in 1..Len(pd) |-> pd[i].data])

\* first row, over the sample tables in load order, whose sample_id is chip_id
FindSample(pd, chip_id) ==
  LET rows == AllRows(pd)
      hits == {i \in 1..Len(rows) : rows[i][1] = chip_id}
  IN IF hits = {} THEN <<>>
     ELSE <<rows[CHOOSE i \in hits : \A j \in hits : i <= j]>>

\* bug variant: the rows are collected in input-file order
Mut_breed_ped_data(pd, samples) ==
  SelectSeq(AllRows(pd), LAMBDA row : \E i \in 1..Len(samples) : samples[i][1] = row[1])

breed_ped_data(pd, samples) ==
  Concat([i \in 1..Len(samples) |-> FindSample(pd, samples[i][1])])

id_mapping(pd, samples) ==
  Concat([i \in 1..Len(samples) |->
            IF FindSample(pd, samples[i][1]) = <<>> THEN <<>>
            ELSE << <<samples[i][1], samples[i][2]>> >>])

MapLineOf(snp_data) == <<snp_data[2], snp_data[1], snp_data[4], snp_data[3]>>

PedLineOf(sample_data) ==
  <<sample_data[2], sample_data[1], sample_data[3], sample_data[4],
    sample_data[5], sample_data[6]>> \o sample_data[7]

\* where the try block raises: at the first output file, behind the sample
\* file, at the archive, or never
FailPoints == {"none", "write_map", "write_idmap", "zip"}

WrittenBefore(fail) ==
  CASE fail = "write_map" -> {}
    [] fail = "write_idmap" -> {"map", "ped"}
    [] fail = "zip" -> {"map", "ped", "idmap"}
    [] OTHER -> {"map", "ped", "idmap", "zip"}

\* written: the files created; loose: the intermediates left behind (os.remove
\* is reached on success only); archive: the zip holds the three files
generate_breed_files(breed, samples, md, pd, fail) ==
  LET template_map == md[1].data
      map_lines == [i \in 1..Len(template_map) |-> MapLineOf(template_map[i])]
      rows == breed_ped_data(pd, samples)
      ped_lines == [i \in 1..Len(rows) |-> PedLineOf(rows[i])]
      idmap_lines == id_mapping(pd, samples)
      written == WrittenBefore(fail)
  IN [breed |-> breed,
      failed |-> fail # "none",
      written |-> written,
      archive |-> "zip" \in written,
      loose |-> IF fail # "none" THEN written ELSE {},
      map |-> IF "map" \in written THEN map_lines ELSE <<>>,
      ped |-> IF "ped" \in written THEN ped_lines ELSE <<>>,
      idmap |-> IF "idmap" \in written THEN idmap_lines ELSE <<>>]

\* -------------------------------------------------------------------- run
\* bug variant: no gate behind load_split_table
Mut_HaltAfterSplitTable(error) == FALSE

HaltAfterSplitTable(error) == error
HaltAfterFind(error) == error
HaltAfterLoad(error) == error
HaltAfterMapConsistency(ok) == ~ok
\* bug variant: validate_data_integrity returns True whatever it found
Mut_IntegrityResult(error) == TRUE

IntegrityResult(error) == ~error
SplitGuard(error) == error
\* bug variant: the except branch reports the failure without setting the flag
Mut_error_after_bundle(error, failed) == error

\* the except branch of generate_breed_files
error_after_bundle(error, failed) == error \/ failed

\* ----------------------------------------------------------------- inputs
TargetName(c) == IF c = "S1" THEN "Alice" ELSE "Bob"

SplitLineSet ==
  {<<c, TargetName(c), b>> : c \in Chips, b \in Breeds}
    \cup {<<"S1", "Alice">>, <<"S2", "Bob", "BreedB", "">>}

SplitFiles ==
  {[exists |-> FALSE, readable |-> FALSE, lines |-> <<>>]}
    \cup {[exists |-> TRUE, readable |-> TRUE, lines |-> l] :
            l \in SeqsUpTo(SplitLineSet, MaxSplitLines)}
    \cup {[exists |-> TRUE, readable |-> FALSE, lines |-> <<<<"S1", "Alice", "BreedA">>>>]}

DirFiles == Prefixes \X {"map", "ped"}

Listings ==
  {l \in SeqsUpTo(DirFiles, Cardinality(DirFiles)) :
     \A i, j \in 1..Len(l) : i # j => l[i] # l[j]}

MapLineSet ==
  {<<"1", m, "0", "100">> : m \in Markers} \cup {<<"1", "M1", "0">>}

Min(x, y) == IF x <= y THEN x ELSE y

MapFiles(k) ==
  {[readable |-> FALSE, lines |-> <<>>]}
    \cup {[readable |-> TRUE, lines |-> l] : l \in SeqsUpTo(MapLineSet, Min(MaxMapLines, k))}

Genotypes(a, n) == [i \in 1..(2 * n) |-> IF i = 1 THEN a ELSE IF i % 2 = 0 THEN "T" ELSE "C"]

PedLine(c, a, n) == <<"F1", c, "P0", "Q0", "1", "-9">> \o Genotypes(a, n)

PedLineSet(n) ==
  {PedLine(sc[1], sc[2], n) : sc \in SampleCalls}
    \cup {SubSeq(PedLine("S1", "A", n), 1, 5 + 2 * n), PedLine("S2", "G", n) \o <<"">>}

PedFiles(n, k) ==
  {[readable |-> FALSE, lines |-> <<>>]}
    \cup {[readable |-> TRUE, lines |-> l] :
            l \in SeqsUpTo(PedLineSet(n), Min(MaxPedLines, k))}

Unread == [readable |-> FALSE, lines |-> <<>>]

RECURSIVE LinesRead(_)
LinesRead(pairs) ==
  IF pairs = <<>> THEN 0
  ELSE Len(Head(pairs).map.lines) + Len(Head(pairs).ped.lines) + LinesRead(Tail(pairs))

\* ------------------------------------------------------------------ state
VARIABLES pc, error_status, split_table, plink_files, next_pair, map_data, ped_data,
          fs_split, fs_pairs, breed_groups, next_group, bundles, warnings,
          defects, exit_code, confirmation, calls

vars == <<pc, error_status, split_table, plink_files, next_pair, map_data, ped_data,
          fs_split, fs_pairs, breed_groups, next_group, bundles, warnings,
          defects, exit_code, confirmation, calls>>

Init ==
  /\ pc = "prompt"
  /\ error_status = FALSE
  /\ split_table = <<>>
  /\ plink_files = <<>>
  /\ next_pair = 1
  /\ map_data = <<>>
  /\ ped_data = <<>>
  /\ fs_split = [exists |-> FALSE, readable |-> FALSE, lines |-> <<>>]
  /\ fs_pairs = <<>>
  /\ breed_groups = <<>>
  /\ next_group = 1
  /\ bundles = <<>>
  /\ warnings = <<>>
  /\ defects = <<>>
  /\ exit_code = -1
  /\ confirmation = "none"
  /\ calls = <<>>

\* sys.exit(1) after the "fix and rerun" message
Halt ==
  /\ pc' = "done"
  /\ exit_code' = 1

\* the site-code prompt loop: repeats until the code has four characters
Prompt ==
  /\ pc = "prompt"
  /\ \E len \in {3, 4} : pc' = IF len = 4 THEN "load_split_table" ELSE "prompt"
  /\ UNCHANGED <<error_status, split_table, plink_files, next_pair, map_data, ped_data,
                 fs_split, fs_pairs, breed_groups, next_group, bundles, warnings,
                 defects, exit_code, confirmation, calls>>

LoadSplitTable ==
  /\ pc = "load_split_table"
  /\ calls' = Append(calls, "load_split_table")
  /\ \E file \in SplitFiles :
       LET r == load_split_table(file)
       IN /\ fs_split' = file
          /\ split_table' = r.table
          /\ error_status' = (error_status \/ r.error)
          /\ defects' = defects \o r.defects
          /\ IF HaltAfterSplitTable(error_status') THEN Halt
             ELSE pc' = "find_plink_files" /\ exit_code' = exit_code
  /\ UNCHANGED <<plink_files, next_pair, map_data, ped_data, fs_pairs, breed_groups,
                 next_group, bundles, warnings, confirmation>>

FindPlinkFiles ==
  /\ pc = "find_plink_files"
  /\ calls' = Append(calls, "find_plink_files")
  /\ \E listing \in Listings :
       LET r == find_plink_files(listing)
       IN /\ plink_files' = r.pairs
          /\ error_status' = (error_status \/ r.error)
          /\ defects' = defects \o r.defects
          /\ IF HaltAfterFind(error_status') THEN Halt
             ELSE pc' = "load_files" /\ exit_code' = exit_code
  /\ UNCHANGED <<split_table, next_pair, map_data, ped_data, fs_split, fs_pairs,
                 breed_groups, next_group, bundles, warnings, confirmation>>

\* one iteration of the loading loop of run(), and the gate behind the last one
LoadPair ==
  /\ pc = "load_files"
  /\ calls' = Append(calls, "load_files")
  /\ next_pair <= Len(plink_files)
  /\ LET prefix == plink_files[next_pair]
         budget == MaxBatchLines - LinesRead(fs_pairs)
     IN \E map_file \in MapFiles(budget) :
          LET m == load_map_file(prefix, map_file)
          IN \E ped_file \in (IF m.data # <<>>
                               THEN PedFiles(Len(m.data), budget - Len(map_file.lines))
                               ELSE {Unread}) :
               LET p == IF m.data # <<>>
                        THEN load_ped_file(prefix, ped_file, Len(m.data))
                        ELSE [data |-> <<>>, error |-> FALSE, defects |-> <<>>]
               IN /\ map_data' = IF m.data # <<>>
                                 THEN Append(map_data, [prefix |-> prefix, data |-> m.data])
                                 ELSE map_data
                  /\ ped_data' = IF p.data # <<>>
                                 THEN Append(ped_data, [prefix |-> prefix, data |-> p.data])
                                 ELSE ped_data
                  /\ fs_pairs' = Append(fs_pairs, [prefix |-> prefix, map |-> map_file,
                                                   ped_read |-> m.data # <<>>,
                                                   ped |-> ped_file])
                  /\ error_status' = (error_status \/ m.error \/ p.error)
                  /\ defects' = defects \o m.defects \o p.defects
  /\ next_pair' = next_pair + 1
  /\ IF next_pair' <= Len(plink_files) THEN pc' = pc /\ exit_code' = exit_code
     ELSE IF HaltAfterLoad(error_status') THEN Halt
     ELSE pc' = "validate_map_consistency" /\ exit_code' = exit_code
  /\ UNCHANGED <<split_table, plink_files, fs_split, breed_groups, next_group, bundles,
                 warnings, confirmation>>

ValidateMapConsistency ==
  /\ pc = "validate_map_consistency"
  /\ calls' = Append(calls, "validate_map_consistency")
  /\ LET r == validate_map_consistency(map_data)
     IN /\ error_status' = (error_status \/ ~r.ok)
        /\ defects' = defects \o r.defects
        /\ IF HaltAfterMapConsistency(r.ok) THEN Halt
           ELSE pc' = "validate_data_integrity" /\ exit_code' = exit_code
  /\ UNCHANGED <<split_table, plink_files, next_pair, map_data, ped_data, fs_split,
                 fs_pairs, breed_groups, next_group, bundles, warnings, confirmation>>

ValidateDataIntegrity ==
  /\ pc = "validate_data_integrity"
  /\ calls' = Append(calls, "validate_data_integrity")
  /\ LET r == validate_data_integrity(split_table, ped_data, error_status)
     IN /\ error_status' = r.error
        /\ defects' = defects \o r.defects
        /\ IF ~IntegrityResult(r.error) THEN Halt
           ELSE pc' = "split_by_breed" /\ exit_code' = exit_code
  /\ UNCHANGED <<split_table, plink_files, next_pair, map_data, ped_data, fs_split,
                 fs_pairs, breed_groups, next_group, bundles, warnings, confirmation>>

\* split_by_breed up to its loop: the guard and the grouping
SplitByBreed ==
  /\ pc = "split_by_breed"
  /\ calls' = Append(calls, "split_by_breed")
  /\ IF SplitGuard(error_status)
     THEN pc' = "report" /\ breed_groups' = breed_groups
     ELSE /\ breed_groups' = breed_groups_of(split_table)
          /\ pc' = IF breed_groups' = <<>> THEN "report" ELSE "generate"
  /\ UNCHANGED <<error_status, split_table, plink_files, next_pair, map_data, ped_data,
                 fs_split, fs_pairs, next_group, bundles, warnings, defects, exit_code,
                 confirmation>>

\* one iteration of the loop of split_by_breed: the size warning and the bundle
GenerateBreedFiles ==
  /\ pc = "generate"
  /\ calls' = Append(calls, "generate_breed_files")
  /\ next_group <= Len(breed_groups)
  /\ LET g == breed_groups[next_group]
     IN /\ warnings' = IF Len(g.samples) < MinBreedSize THEN Append(warnings, g.breed)
                       ELSE warnings
        /\ \E fail \in FailPoints :
             LET b == generate_breed_files(g.breed, g.samples, map_data, ped_data, fail)
             IN /\ bundles' = Append(bundles, b)
                /\ error_status' = error_after_bundle(error_status, b.failed)
                /\ defects' = IF b.failed
                              THEN Append(defects, Defect("BundleWriteFailure",
                                                          "generate_breed_files", "", 0, g.breed))
                              ELSE defects
                /\ next_group' = next_group + 1
                /\ pc' = IF next_group' <= Len(breed_groups) THEN "generate" ELSE "report"
  /\ UNCHANGED <<split_table, plink_files, next_pair, map_data, ped_data, fs_split,
                 fs_pairs, breed_groups, exit_code, confirmation>>

\* the closing message of run() and the normal return
Report ==
  /\ pc = "report"
  /\ confirmation' = IF ~error_status THEN "success" ELSE "failed"
  /\ pc' = "done"
  /\ exit_code' = 0
  /\ UNCHANGED <<error_status, split_table, plink_files, next_pair, map_data, ped_data,
                 fs_split, fs_pairs, breed_groups, next_group, bundles, warnings, defects,
                 calls>>

Next ==
  \/ Prompt
  \/ LoadSplitTable
  \/ FindPlinkFiles
  \/ LoadPair
  \/ ValidateMapConsistency
  \/ ValidateDataIntegrity
  \/ SplitByBreed
  \/ GenerateBreedFiles
  \/ Report

Spec == Init /\ [][Next]_vars

\* ================================================================ claims
Ran(stage) == \E i \in 1..Len(calls) : calls[i] = stage

Reported(kind) == \E i \in 1..Len(defects) : defects[i].kind = kind

NumReported(kind, id) ==
  Cardinality({i \in 1..Len(defects) : defects[i].kind = kind /\ defects[i].id = id})

Occurrences(seq, x) == Cardinality({i \in 1..Len(seq) : seq[i] = x})

PartitionBegan == breed_groups # <<>>

EarlyDefect == \E i \in 1..Len(defects) : defects[i].stage # "generate_breed_files"

LoadedIds == AllSampleIds(ped_data)

TableChips == {split_table[i].chip_id : i \in 1..Len(split_table)}

\* C1: a defect recorded by any stage before the partitioning keeps every group
\* output from being written and ends the run with exit status 1; the
\* partitioning begins only with the error flag clear.
FailFastGate ==
  /\ EarlyDefect =>
       /\ bundles = <<>>
       /\ ~PartitionBegan
       /\ pc \in {"load_files", "done"}
       /\ pc = "done" => exit_code = 1
  /\ (pc = "generate" /\ bundles = <<>>) => ~error_status

FailFastGateWitness ==
  /\ pc = "done"
  /\ exit_code = 1
  /\ Reported("UnmappedChip")
  /\ bundles = <<>>

\* C2: when two loaded sample records share a sampleId, validate_data_integrity
\* reports one DuplicateSampleId defect for that id, sets the error flag, and
\* the partitioning does not run.
DuplicatedIds == {id \in LoadedIds : Occurrences([i \in 1..Len(AllRows(ped_data)) |->
                                                     AllRows(ped_data)[i][1]], id) > 1}

DuplicateDetection ==
  (Ran("validate_data_integrity") /\ DuplicatedIds # {}) =>
    /\ \A id \in DuplicatedIds : NumReported("DuplicateSampleId", id) = 1
    /\ error_status
    /\ ~PartitionBegan

\* C3: after a successful run the sample rows written over all group outputs
\* are exactly the sample rows of the input files, each input row once.
InputRows ==
  Concat([k \in 1..Len(fs_pairs) |->
            IF fs_pairs[k].ped_read /\ fs_pairs[k].ped.readable
            THEN [i \in 1..Len(fs_pairs[k].ped.lines) |-> Parts(fs_pairs[k].ped.lines[i])]
            ELSE <<>>])

WrittenRows == Concat([k \in 1..Len(bundles) |-> bundles[k].ped])

RoundTripPartition ==
  (pc = "done" /\ confirmation = "success") =>
    \A r \in Range(InputRows) \cup Range(WrittenRows) :
      Occurrences(WrittenRows, r) = Occurrences(InputRows, r)

\* C4: the sampleIds of a group's sample output are the mapping-table chipIds of
\* that group in mapping-table order, and the identifier-translation file has
\* the line chipId, targetSampleName for each of them in the same order.
EntriesOfBreed(breed) == SelectSeq(split_table, LAMBDA e : e.breed = breed)

OrderPreservation ==
  \A k \in 1..Len(bundles) :
    LET b == bundles[k]
        es == EntriesOfBreed(b.breed)
    IN /\ "ped" \in b.written =>
            /\ Len(b.ped) = Len(es)
            /\ \A i \in 1..Len(es) : b.ped[i][2] = es[i].chip_id
       /\ "idmap" \in b.written =>
            b.idmap = [i \in 1..Len(es) |-> <<es[i].chip_id, es[i].sample_name>>]

OrderPreservationWitness ==
  \E k \in 1..Len(bundles) :
    /\ bundles[k].archive
    /\ Len(bundles[k].ped) = 2
    /\ AllRows(ped_data)[1][1] = bundles[k].ped[2][2]

\* C5 as stated: defects of different stages are all reported before the run
\* halts; so when the run has halted on an inconsistent marker ordering, every
\* unmapped chipId and a row-count mismatch of the loaded batch are reported too.
AccumulatedAcrossStages ==
  (pc = "done" /\ exit_code = 1 /\ Reported("InconsistentSchema")) =>
    \A d \in Range(validate_data_integrity(split_table, ped_data, FALSE).defects) :
      d \in Range(defects)

\* C5 as amended: defects are accumulated within one stage and acted on at
\* that stage's gate: all reported defects belong to the stage that halted the
\* run; every mapping-table row that does not parse to three fields is
\* reported; UnmappedChip and RowCountMismatch are reported together.
BadSplitLines ==
  IF fs_split.exists /\ fs_split.readable
  THEN {i \in 1..Len(fs_split.lines) : Len(Parts(fs_split.lines[i])) # 3}
  ELSE {}

AccumulatedWithinStage ==
  /\ \A i, j \in 1..Len(defects) : defects[i].stage = defects[j].stage
  /\ (pc = "done" /\ exit_code = 1) =>
       /\ defects # <<>>
       /\ defects[1].stage = calls[Len(calls)]
  /\ Ran("load_split_table") =>
       \A i \in BadSplitLines :
         \E k \in 1..Len(defects) :
           /\ defects[k].kind = "MalformedRow"
           /\ defects[k].stage = "load_split_table"
           /\ defects[k].line = i
  /\ Ran("validate_data_integrity") =>
       /\ \A c \in TableChips \ LoadedIds : NumReported("UnmappedChip", c) = 1
       /\ Len(split_table) # Cardinality(LoadedIds) => Reported("RowCountMismatch")

AccumulatedWithinStageWitness ==
  /\ pc = "done"
  /\ exit_code = 1
  /\ Reported("UnmappedChip")
  /\ Reported("RowCountMismatch")

\* C6: whenever the partitioning runs, all marker files of the discovered pairs
\* (one with zero records included) have the same number of records and the
\* same order of marker_id; a divergence is reported once and stops the run.
MarkerIdsOfFile(file) == [k \in 1..Len(file.lines) |-> Parts(file.lines[k])[2]]

MarkerSetConsistency ==
  /\ PartitionBegan =>
       \A i, j \in 1..Len(fs_pairs) :
         MarkerIdsOfFile(fs_pairs[i].map) = MarkerIdsOfFile(fs_pairs[j].map)
  /\ Cardinality({i \in 1..Len(defects) : defects[i].kind = "InconsistentSchema"}) <= 1

\* C7: validate_data_integrity reports exactly one UnmappedChip defect for each
\* mapping-table chipId that no loaded sample row carries, none for any other
\* id, and sets the error flag when there is such an id.
ReferentialIntegrity ==
  Ran("validate_data_integrity") =>
    /\ \A c \in TableChips \ LoadedIds : NumReported("UnmappedChip", c) = 1
    /\ \A i \in 1..Len(defects) :
         defects[i].kind = "UnmappedChip" => defects[i].id \in TableChips \ LoadedIds
    /\ TableChips \ LoadedIds # {} => error_status

ReferentialIntegrityWitness ==
  /\ Ran("validate_data_integrity")
  /\ Cardinality(TableChips \ LoadedIds) = 2

\* C8 as stated: at partition time the mapping chipIds are exactly the loaded
\* sampleIds, and a loaded sample without mapping entry is rejected with
\* RowCountMismatch.
MappingSampleBijection ==
  /\ PartitionBegan =>
       /\ Len(split_table) = Cardinality(LoadedIds)
       /\ TableChips = LoadedIds
  /\ (Ran("validate_data_integrity") /\ LoadedIds \ TableChips # {}) =>
       Reported("RowCountMismatch")

\* C8 as amended: at partition time the mapping chipIds are exactly the loaded
\* sampleIds; a loaded sample without mapping entry is rejected by
\* validate_data_integrity, with RowCountMismatch when the counts differ and
\* with UnmappedChip otherwise.
MappingSampleBijectionAmended ==
  /\ PartitionBegan =>
       /\ Len(split_table) = Cardinality(LoadedIds)
       /\ TableChips = LoadedIds
  /\ (Ran("validate_data_integrity") /\ LoadedIds \ TableChips # {}) =>
       /\ pc = "done"
       /\ exit_code = 1
       /\ ~PartitionBegan
       /\ IF Len(split_table) # Cardinality(LoadedIds)
          THEN Reported("RowCountMismatch")
          ELSE Reported("UnmappedChip")

MappingSampleBijectionWitness ==
  /\ Ran("validate_data_integrity")
  /\ LoadedIds \ TableChips # {}
  /\ TableChips \subseteq LoadedIds
  /\ Reported("RowCountMismatch")

\* C9: every line of a sample file whose number of tab-separated fields is not
\* 6 + 2 x the marker count is reported as MalformedRow with its line number
\* and left out of the sample table, and the lines behind it are still parsed.
RowsOfPrefix(prefix) ==
  Concat([i \in 1..Len(ped_data) |->
            IF ped_data[i].prefix = prefix THEN ped_data[i].data ELSE <<>>])

MalformedSampleRow ==
  \A k \in 1..Len(fs_pairs) :
    LET f == fs_pairs[k]
        expected == 6 + 2 * Len(load_map_file(f.prefix, f.map).data)
        bad == {i \in 1..Len(f.ped.lines) : Len(f.ped.lines[i]) # expected}
    IN (f.ped_read /\ f.ped.readable) =>
         /\ \A i \in bad :
              Cardinality({d \in 1..Len(defects) :
                             /\ defects[d].kind = "MalformedRow"
                             /\ defects[d].file = f.prefix
                             /\ defects[d].id = "ped"
                             /\ defects[d].line = i}) = 1
         /\ Len(RowsOfPrefix(f.prefix)) = Len(f.ped.lines) - Cardinality(bad)

\* C10: a group whose bundle cannot be written is reported and sets the error
\* flag, generate_breed_files still runs for every group of the mapping table,
\* and the success confirmation is printed exactly when no group failed.
FailedBundles == {k \in 1..Len(bundles) : bundles[k].failed}

BestEffortPerGroup ==
  /\ \A k \in FailedBundles :
       /\ NumReported("BundleWriteFailure", bundles[k].breed) = 1
       /\ error_status
  /\ (PartitionBegan /\ pc \in {"report", "done"}) =>
       /\ Len(bundles) = Len(breed_groups)
       /\ \A k \in 1..Len(bundles) : bundles[k].breed = breed_groups[k].breed
       /\ {breed_groups[k].breed : k \in 1..Len(breed_groups)} =
            {split_table[i].breed : i \in 1..Len(split_table)}
  /\ (PartitionBegan /\ pc = "done") =>
       (confirmation = "success" <=> FailedBundles = {})

BestEffortPerGroupWitness ==
  /\ pc = "done"
  /\ Len(bundles) = 2
  /\ bundles[1].failed
  /\ bundles[2].archive
  /\ confirmation = "failed"

====
